---- MODULE Spec2Model ----
(***************************************************************************)
(* Food Ordering API (src/main.py): the handlers seed, list_restaurants,   *)
(* get_menu, place_order, list_orders, read_root and test_database over a  *)
(* document store with the collections restaurant, menuitem and order.     *)
(*                                                                         *)
(* Modelling decisions                                                     *)
(*  - A collection is the sequence of its documents in insertion order.    *)
(*  - An ObjectId is a positive integer drawn from one increasing counter  *)
(*    (nextId); 0 stands for None.                                         *)
(*  - A string that is used as an identity is a record [form, n]:          *)
(*    form "hex" is the canonical lower-case hexadecimal text str() gives, *)
(*    form "HEX" is the same digits in upper case (ObjectId() parses both  *)
(*    to the same identity, str() only ever returns the former), form      *)
(*    "bad" is a text ObjectId() rejects.                                  *)
(*  - Money is an integer number of thousandths (13.99 is 13990), so that  *)
(*    round(total, 2) has something to round.                              *)
(*  - The handlers run on Workers; a worker's pc is its position in the    *)
(*    handler between two store operations, loc holds the handler's local  *)
(*    variables.  Every store operation is one atomic step.                *)
(*  - resp is the HTTP response sent by the step just taken (NoResp when   *)
(*    that step sent none).                                                *)
(*  - The store is reachable: store operations do not raise.               *)
(*  - Workers are interchangeable, so a request is taken by the lowest     *)
(*    idle worker.  seedCalls and orderCalls count the invocations that    *)
(*    reach the store; MaxCalls caps their sum.                            *)
(*  - The passthrough order fields customer_name, address, phone and notes *)
(*    are left out; they are copied from the request to the document.      *)
(***************************************************************************)
EXTENDS Integers, Sequences, FiniteSets, TLC

\* ---------------------------------------------------------------- bounds
NumWorkers == 2
MaxCalls == 3
MaxPriceChanges == 1

\* ------------------------------------------------------ program constants
RestaurantLimit == 50
MenuLimit == 200
DefaultLimit == 20

VARIABLES restaurant, menuitem, order, nextId, pc, loc, resp,
          seedCalls, orderCalls, priceChanges

vars == <<restaurant, menuitem, order, nextId, pc, loc, resp,
          seedCalls, orderCalls, priceChanges>>

store == <<restaurant, menuitem, order>>

Workers == 1..NumWorkers

\* The worker that takes the next request.
Free(w) == pc[w] = "idle" /\ \A v \in Workers : v < w => pc[v] # "idle"

AllIdle == \A w \in Workers : pc[w] = "idle"

Budget == seedCalls + orderCalls < MaxCalls

\* ------------------------------------------------------------- identities
\* str(ObjectId): always the canonical lower-case text.
ToStr(oid) == [form |-> "hex", n |-> oid]

\* The same digits written in upper case.
Upper(oid) == [form |-> "HEX", n |-> oid]

\* A text that is not 24 hexadecimal digits.
Malformed == [form |-> "bad", n |-> 0]

\* ObjectId.is_valid: 24 hexadecimal digits of either case.
IsValidOid(s) == s.form \in {"hex", "HEX"}

\* ObjectId(s) for a valid s.
ParseOid(s) == s.n

\* ---------------------------------------------------------- store helpers
RECURSIVE Take(_, _)
Take(seq, n) ==
  IF n <= 0 \/ seq = <<>> THEN <<>>
  ELSE <<Head(seq)>> \o Take(Tail(seq), n - 1)

Range(seq) == {seq[i] : i \in 1..Len(seq)}

Abs(n) == IF n < 0 THEN -n ELSE n

\* cursor.limit(n): 0 means no limit, a negative n is sent as its absolute value.
Limit(seq, n) == IF n = 0 THEN seq ELSE Take(seq, Abs(n))

\* Mutant: the insert replaces what the collection held.
InsertOneOverwrites(coll, doc) == <<doc>>

\* insert_one / insert_many append to the collection.
InsertOne(coll, doc) == Append(coll, doc)

\* serialize_doc: the _id field becomes the string field id.
SerializeDoc(doc) ==
  [f \in (DOMAIN doc \ {"_id"}) \cup {"id"} |->
     IF f = "id" THEN ToStr(doc._id) ELSE doc[f]]

SerializeAll(docs) == [i \in 1..Len(docs) |-> SerializeDoc(docs[i])]

\* ---------------------------------------------------------------- prices
SeedPrices == <<13990, 10500, 11000, 12750>>
SeedNames == <<"Butter Chicken", "Paneer Tikka", "Margherita Pizza", "Pesto Pasta">>

\* Prices an external writer may set on a menu item.
NewPrices == {10002}

\* round(x, 2) on thousandths: to the nearest hundredth, ties to even.
Round2(x) ==
  LET q == x \div 10
      r == x % 10
  IN 10 * (IF r < 5 THEN q
           ELSE IF r > 5 THEN q + 1
           ELSE IF q % 2 = 0 THEN q ELSE q + 1)

\* ----------------------------------------------------------------- locals
NoLoc == [r1_id |-> 0, r2_id |-> 0, payload |-> <<>>, menu_docs |-> <<>>,
          order_doc |-> <<>>, total |-> 0, order_id |-> 0]

NoResp == [op |-> "none", code |-> 0, req |-> <<>>, body |-> <<>>]

Init ==
  /\ restaurant = <<>>
  /\ menuitem = <<>>
  /\ order = <<>>
  /\ nextId = 1
  /\ pc = [w \in Workers |-> "idle"]
  /\ loc = [w \in Workers |-> NoLoc]
  /\ resp = NoResp
  /\ seedCalls = 0
  /\ orderCalls = 0
  /\ priceChanges = 0

\* ------------------------------------------------------------------- seed
\* Mutant: the emptiness test is dropped.
SeedIsEmptyAlways(coll) == TRUE

\* db["restaurant"].count_documents({}) == 0
SeedIsEmpty(coll) == Len(coll) = 0

SeedCount(w) ==
  /\ Free(w)
  /\ Budget
  /\ seedCalls' = seedCalls + 1
  /\ pc' = [pc EXCEPT ![w] = IF SeedIsEmpty(restaurant) THEN "seed_r1" ELSE "seed_return"]
  /\ resp' = NoResp
  /\ UNCHANGED <<restaurant, menuitem, order, nextId, loc, orderCalls, priceChanges>>

SeedInsertR1(w) ==
  /\ pc[w] = "seed_r1"
  /\ restaurant' = InsertOne(restaurant, [_id |-> nextId, name |-> "Spice Route"])
  /\ loc' = [loc EXCEPT ![w].r1_id = nextId]
  /\ nextId' = nextId + 1
  /\ pc' = [pc EXCEPT ![w] = "seed_r2"]
  /\ resp' = NoResp
  /\ UNCHANGED <<menuitem, order, seedCalls, orderCalls, priceChanges>>

SeedInsertR2(w) ==
  /\ pc[w] = "seed_r2"
  /\ restaurant' = InsertOne(restaurant, [_id |-> nextId, name |-> "Pasta Palace"])
  /\ loc' = [loc EXCEPT ![w].r2_id = nextId]
  /\ nextId' = nextId + 1
  /\ pc' = [pc EXCEPT ![w] = "seed_menu"]
  /\ resp' = NoResp
  /\ UNCHANGED <<menuitem, order, seedCalls, orderCalls, priceChanges>>

\* Mutant: all four menu items reference the first restaurant.
SeedMenuDocsOneRestaurant(r1, r2, first) ==
  [i \in 1..4 |->
     [_id |-> first + i - 1,
      restaurant_id |-> ToStr(r1),
      name |-> SeedNames[i],
      price |-> SeedPrices[i]]]

\* The four documents of insert_many, with the identities the store gives them.
SeedMenuDocs(r1, r2, first) ==
  [i \in 1..4 |->
     [_id |-> first + i - 1,
      restaurant_id |-> ToStr(IF i <= 2 THEN r1 ELSE r2),
      name |-> SeedNames[i],
      price |-> SeedPrices[i]]]

SeedInsertMenu(w) ==
  /\ pc[w] = "seed_menu"
  /\ menuitem' = menuitem \o SeedMenuDocs(loc[w].r1_id, loc[w].r2_id, nextId)
  /\ nextId' = nextId + 4
  /\ pc' = [pc EXCEPT ![w] = "seed_return"]
  /\ resp' = NoResp
  /\ UNCHANGED <<restaurant, order, loc, seedCalls, orderCalls, priceChanges>>

SeedReturn(w) ==
  /\ pc[w] = "seed_return"
  /\ resp' = [op |-> "seed", code |-> 200, req |-> <<>>, body |-> <<"ok">>]
  /\ pc' = [pc EXCEPT ![w] = "idle"]
  /\ loc' = [loc EXCEPT ![w] = NoLoc]
  /\ UNCHANGED <<restaurant, menuitem, order, nextId, seedCalls, orderCalls, priceChanges>>

\* ------------------------------------------------------------ place_order
\* Request inputs: the identity texts and quantities a client may send.
ProbeIds == {3, 4}
Line(mid, qty) == [menuitem_id |-> mid, quantity |-> qty]
Payloads ==
  {[restaurant_id |-> ToStr(1), items |-> its] : its \in
     {<<>>,
      <<Line(ToStr(3), 2), Line(ToStr(4), 1)>>,
      <<Line(ToStr(3), 1), Line(ToStr(3), 1)>>,
      <<Line(Upper(3), 1)>>,
      <<Line(ToStr(4), 1), Line(Malformed, 1)>>,
      <<Line(ToStr(3), -1)>>}}

\* menu_ids = [i.menuitem_id for i in payload.items]
MenuIds(items) == [i \in 1..Len(items) |-> items[i].menuitem_id]

\* Mutant: identities that do not parse are skipped instead of raising.
AllValidSkipsInvalid(menu_ids) == TRUE

\* [ObjectId(mid) for mid in menu_ids] raises when some mid is not valid.
AllValid(menu_ids) == \A i \in 1..Len(menu_ids) : IsValidOid(menu_ids[i])

\* list(db["menuitem"].find({"_id": {"$in": [ObjectId(mid) ...]}}))
FindByIds(coll, menu_ids) ==
  LET oids == {ParseOid(menu_ids[i]) : i \in 1..Len(menu_ids)}
  IN SelectSeq(coll, LAMBDA d : d._id \in oids)

\* price_map = {str(d["_id"]): float(d.get("price", 0)) for d in menu_docs}
PriceMap(menu_docs) ==
  [s \in {ToStr(menu_docs[i]._id) : i \in 1..Len(menu_docs)} |->
     (CHOOSE d \in Range(menu_docs) : ToStr(d._id) = s).price]

\* Mutant: a line whose identity is not in the map takes a default price of 1.0.
LinePriceDefaultOne(price_map, mid) ==
  IF mid \in DOMAIN price_map THEN price_map[mid] ELSE 1000

\* price = price_map.get(i.menuitem_id, 0.0)
LinePrice(price_map, mid) ==
  IF mid \in DOMAIN price_map THEN price_map[mid] ELSE 0

\* items.append({"menuitem_id": ..., "quantity": ..., "price": price})
OrderItems(items, price_map) ==
  [i \in 1..Len(items) |->
     [menuitem_id |-> items[i].menuitem_id,
      quantity |-> items[i].quantity,
      price |-> LinePrice(price_map, items[i].menuitem_id)]]

\* total = 0.0; for each line: total += price * i.quantity
RECURSIVE RunningTotal(_)
RunningTotal(items) ==
  IF items = <<>> THEN 0
  ELSE Head(items).price * Head(items).quantity + RunningTotal(Tail(items))

\* order_doc = {..., "status": "placed", "total": round(total, 2)}
OrderDoc(payload, items, total) ==
  [restaurant_id |-> payload.restaurant_id,
   items |-> items,
   status |-> "placed",
   total |-> Round2(total)]

\* {"id": str(order_id), "total": round(total, 2), "status": "placed"}
OrderResponse(order_id, total) ==
  [id |-> ToStr(order_id), total |-> Round2(total), status |-> "placed"]

\* Lines 107-126: the lookup query and the computation of order_doc; a
\* malformed identity raises before the query and the handler answers 500.
PlaceOrderLookup(w, payload) ==
  /\ Free(w)
  /\ Budget
  /\ IF AllValid(MenuIds(payload.items))
     THEN LET menu_docs == FindByIds(menuitem, MenuIds(payload.items))
              items == OrderItems(payload.items, PriceMap(menu_docs))
              total == RunningTotal(items)
          IN /\ loc' = [loc EXCEPT ![w] =
                          [NoLoc EXCEPT !.payload = payload,
                                        !.menu_docs = menu_docs,
                                        !.order_doc = OrderDoc(payload, items, total),
                                        !.total = total]]
             /\ pc' = [pc EXCEPT ![w] = "order_insert"]
             /\ orderCalls' = orderCalls + 1
             /\ resp' = NoResp
     ELSE /\ resp' = [op |-> "place_order", code |-> 500, req |-> payload, body |-> <<>>]
          /\ UNCHANGED <<pc, loc, orderCalls>>
  /\ UNCHANGED <<restaurant, menuitem, order, nextId, seedCalls, priceChanges>>

\* order_id = db["order"].insert_one(order_doc).inserted_id
PlaceOrderInsert(w) ==
  /\ pc[w] = "order_insert"
  /\ order' = InsertOne(order, [f \in DOMAIN loc[w].order_doc \cup {"_id"} |->
                                  IF f = "_id" THEN nextId ELSE loc[w].order_doc[f]])
  /\ loc' = [loc EXCEPT ![w].order_id = nextId]
  /\ nextId' = nextId + 1
  /\ pc' = [pc EXCEPT ![w] = "order_return"]
  /\ resp' = NoResp
  /\ UNCHANGED <<restaurant, menuitem, seedCalls, orderCalls, priceChanges>>

PlaceOrderReturn(w) ==
  /\ pc[w] = "order_return"
  /\ resp' = [op |-> "place_order", code |-> 200, req |-> loc[w].payload,
              body |-> OrderResponse(loc[w].order_id, loc[w].total)]
  /\ pc' = [pc EXCEPT ![w] = "idle"]
  /\ loc' = [loc EXCEPT ![w] = NoLoc]
  /\ UNCHANGED <<restaurant, menuitem, order, nextId, seedCalls, orderCalls, priceChanges>>

\* ------------------------------------------------------------------ reads
RestaurantIdInputs == {ToStr(1), Upper(1), Malformed}
LimitInputs == {0, 1, DefaultLimit}

\* .sort("_id", -1)
RECURSIVE SortDesc(_)
SortDesc(docs) ==
  IF docs = <<>> THEN <<>>
  ELSE LET m == CHOOSE i \in 1..Len(docs) : \A j \in 1..Len(docs) : docs[j]._id <= docs[i]._id
       IN <<docs[m]>> \o SortDesc([k \in 1..(Len(docs) - 1) |->
                                     IF k < m THEN docs[k] ELSE docs[k + 1]])

\* Mutant: the restaurant_id filter matches by parsed identity, not by text.
MenuOfByIdentity(coll, restaurant_id) ==
  Limit(SelectSeq(coll, LAMBDA d : IsValidOid(restaurant_id)
                                   /\ ParseOid(d.restaurant_id) = ParseOid(restaurant_id)),
        MenuLimit)

\* db["menuitem"].find({"restaurant_id": restaurant_id}).limit(200)
MenuOf(coll, restaurant_id) ==
  Limit(SelectSeq(coll, LAMBDA d : d.restaurant_id = restaurant_id), MenuLimit)

\* db["order"].find({}).sort("_id", -1).limit(limit)
OrdersNewestFirst(coll, limit) == Limit(SortDesc(coll), limit)

ReadOnly == UNCHANGED <<restaurant, menuitem, order, nextId, pc, loc,
                        seedCalls, orderCalls, priceChanges>>

ReadRoot ==
  /\ resp' = [op |-> "read_root", code |-> 200, req |-> <<>>,
              body |-> <<"Food Ordering API is running">>]
  /\ ReadOnly

ListRestaurants ==
  /\ resp' = [op |-> "list_restaurants", code |-> 200, req |-> <<>>,
              body |-> SerializeAll(Limit(restaurant, RestaurantLimit))]
  /\ ReadOnly

GetMenu(restaurant_id) ==
  /\ resp' = [op |-> "get_menu", code |-> 200, req |-> restaurant_id,
              body |-> SerializeAll(MenuOf(menuitem, restaurant_id))]
  /\ ReadOnly

ListOrders(limit) ==
  /\ resp' = [op |-> "list_orders", code |-> 200, req |-> limit,
              body |-> SerializeAll(OrdersNewestFirst(order, limit))]
  /\ ReadOnly

\* db.list_collection_names()[:10]: a collection exists once it holds a document.
CollectionNames ==
  (IF restaurant # <<>> THEN <<"restaurant">> ELSE <<>>)
  \o (IF menuitem # <<>> THEN <<"menuitem">> ELSE <<>>)
  \o (IF order # <<>> THEN <<"order">> ELSE <<>>)

TestDatabase ==
  /\ resp' = [op |-> "test_database", code |-> 200, req |-> <<>>,
              body |-> Take(CollectionNames, 10)]
  /\ ReadOnly

\* ------------------------------------------------------------ environment
\* A writer outside this service changes the live price of a menu item.
PriceChange(i, p) ==
  /\ priceChanges < MaxPriceChanges
  /\ i \in 1..Len(menuitem)
  /\ menuitem[i]._id \in ProbeIds
  /\ menuitem[i].price # p
  /\ menuitem' = [menuitem EXCEPT ![i].price = p]
  /\ priceChanges' = priceChanges + 1
  /\ resp' = NoResp
  /\ UNCHANGED <<restaurant, order, nextId, pc, loc, seedCalls, orderCalls>>

Next ==
  \/ \E w \in Workers : SeedCount(w)
  \/ \E w \in Workers : SeedInsertR1(w)
  \/ \E w \in Workers : SeedInsertR2(w)
  \/ \E w \in Workers : SeedInsertMenu(w)
  \/ \E w \in Workers : SeedReturn(w)
  \/ \E w \in Workers, payload \in Payloads : PlaceOrderLookup(w, payload)
  \/ \E w \in Workers : PlaceOrderInsert(w)
  \/ \E w \in Workers : PlaceOrderReturn(w)
  \/ ReadRoot
  \/ ListRestaurants
  \/ \E r \in RestaurantIdInputs : GetMenu(r)
  \/ \E n \in LimitInputs : ListOrders(n)
  \/ TestDatabase
  \/ \E i \in 1..Len(menuitem), p \in NewPrices : PriceChange(i, p)

Spec == Init /\ [][Next]_vars

\* One request at a time: a handler starts only after the previous one returned.
NextSeq ==
  \/ \E w \in Workers : AllIdle /\ SeedCount(w)
  \/ \E w \in Workers : SeedInsertR1(w)
  \/ \E w \in Workers : SeedInsertR2(w)
  \/ \E w \in Workers : SeedInsertMenu(w)
  \/ \E w \in Workers : SeedReturn(w)
  \/ \E w \in Workers, payload \in Payloads : AllIdle /\ PlaceOrderLookup(w, payload)
  \/ \E w \in Workers : PlaceOrderInsert(w)
  \/ \E w \in Workers : PlaceOrderReturn(w)
  \/ AllIdle /\ ReadRoot
  \/ AllIdle /\ ListRestaurants
  \/ \E r \in RestaurantIdInputs : AllIdle /\ GetMenu(r)
  \/ \E n \in LimitInputs : AllIdle /\ ListOrders(n)
  \/ AllIdle /\ TestDatabase
  \/ \E i \in 1..Len(menuitem), p \in NewPrices : PriceChange(i, p)

SpecSeq == Init /\ [][NextSeq]_vars

\* ================================================================ claims
PersistedOrder(id) == CHOOSE d \in Range(order) : d._id = id

\* The price the store holds, in the documents the lookup returned, for the
\* menu item a request line names; 0 when the lookup returned no such item.
StorePrice(menu_docs, mid) ==
  IF \E d \in Range(menu_docs) : d._id = ParseOid(mid)
  THEN (CHOOSE d \in Range(menu_docs) : d._id = ParseOid(mid)).price
  ELSE 0

RECURSIVE LookupTotal(_, _)
LookupTotal(items, menu_docs) ==
  IF items = <<>> THEN 0
  ELSE StorePrice(menu_docs, Head(items).menuitem_id) * Head(items).quantity
       + LookupTotal(Tail(items), menu_docs)

\* A request line whose identity parses but names no menu item the lookup found.
Unmatched(menu_docs, mid) ==
  IsValidOid(mid) /\ ~ \E d \in Range(menu_docs) : d._id = ParseOid(mid)

\* The price a line gets when it is the only line of a request.
AlonePrice(menu_docs, mid) ==
  LinePrice(PriceMap(FindByIds(menu_docs, <<mid>>)), mid)

\* C1: when place_order has persisted an order and is about to answer, the
\* persisted lines are the requested lines in request order, each carrying the
\* price the lookup found for its menu item, the persisted total is the sum of
\* price x quantity over all lines rounded to 2 decimals, and the response total
\* equals the persisted total.
C1_TotalIsSumOfLookupPrices ==
  \A w \in Workers : pc[w] = "order_return" =>
    LET its == loc[w].payload.items
        snap == loc[w].menu_docs
        id == loc[w].order_id
    IN /\ \E d \in Range(order) : d._id = id
       /\ LET d == PersistedOrder(id)
          IN /\ Len(d.items) = Len(its)
             /\ \A i \in 1..Len(its) :
                  d.items[i] = [menuitem_id |-> its[i].menuitem_id,
                                quantity |-> its[i].quantity,
                                price |-> StorePrice(snap, its[i].menuitem_id)]
             /\ d.total = Round2(LookupTotal(its, snap))
             /\ OrderResponse(id, loc[w].total).total = d.total

\* C2: with one request at a time, every seed invocation answers ok and leaves
\* exactly 2 restaurants and 4 menu items; an invocation that found the
\* collection non-empty inserted nothing, and the store never holds more.
C2_SeedIdempotent ==
  /\ Len(restaurant) <= 2
  /\ Len(menuitem) <= 4
  /\ resp.op = "seed" =>
       /\ resp.code = 200
       /\ resp.body = <<"ok">>
       /\ Len(restaurant) = 2
       /\ Len(menuitem) = 4
  /\ \A w \in Workers : (pc[w] = "seed_return" /\ loc[w].r1_id = 0) =>
       Len(restaurant) = 2 /\ Len(menuitem) = 4

\* The second of two successive seed invocations has just answered.
C2_Witness ==
  resp.op = "seed" /\ seedCalls = 2 /\ AllIdle

MenuCountOf(rid) ==
  Cardinality({i \in 1..Len(menuitem) : menuitem[i].restaurant_id = ToStr(rid)})

HasRestaurant(rid) == \E r \in Range(restaurant) : r._id = rid

C3_State ==
  /\ \A w \in Workers : (pc[w] = "seed_return" /\ loc[w].r1_id # 0) =>
       /\ loc[w].r2_id # 0
       /\ loc[w].r1_id # loc[w].r2_id
       /\ HasRestaurant(loc[w].r1_id)
       /\ HasRestaurant(loc[w].r2_id)
       /\ MenuCountOf(loc[w].r1_id) = 2
       /\ MenuCountOf(loc[w].r2_id) = 2
  /\ \A m \in Range(menuitem) :
       \E r \in Range(restaurant) : m.restaurant_id = ToStr(r._id)

C3_Step ==
  \A w \in Workers :
    /\ (pc[w] = "idle" /\ pc'[w] = "seed_r1") => UNCHANGED store
    /\ (pc[w] = "seed_r1" /\ pc'[w] = "seed_r2") =>
         /\ Len(restaurant') = Len(restaurant) + 1
         /\ restaurant'[Len(restaurant')]._id = loc'[w].r1_id
         /\ UNCHANGED <<menuitem, order>>
    /\ (pc[w] = "seed_r2" /\ pc'[w] = "seed_menu") =>
         /\ Len(restaurant') = Len(restaurant) + 1
         /\ restaurant'[Len(restaurant')]._id = loc'[w].r2_id
         /\ UNCHANGED <<menuitem, order>>
    /\ (pc[w] = "seed_menu" /\ pc'[w] = "seed_return") =>
         /\ Len(menuitem') = Len(menuitem) + 4
         /\ \A i \in (Len(menuitem) + 1)..Len(menuitem') :
              menuitem'[i].restaurant_id \in {ToStr(loc[w].r1_id), ToStr(loc[w].r2_id)}
         /\ UNCHANGED <<restaurant, order>>

\* C3: a seed invocation that found the restaurant collection empty inserts, step
\* by step, exactly two restaurants and then exactly four menu items; when it is
\* about to answer, two menu items reference each of its two restaurants by the
\* text of the identity the store gave it, both restaurants are in the store,
\* and no menu item references a restaurant the store does not hold.
C3_SeedInsertsTwoAndFour == []C3_State /\ [][C3_Step]_vars

\* A seeding invocation is about to answer while another one has seeded too.
C3_Witness ==
  \E w \in Workers :
    pc[w] = "seed_return" /\ loc[w].r1_id # 0 /\ Len(restaurant) > 2

\* C4: every step keeps every persisted order as it is: the order collection
\* only grows at its end.
C4_OrdersNeverChange ==
  [][/\ Len(order') >= Len(order)
     /\ \A i \in 1..Len(order) : order'[i] = order[i]]_vars

\* A persisted line carries a price that is no longer the live price of its item.
C4_Witness ==
  \E d \in Range(order) : \E i \in 1..Len(d.items) : \E m \in Range(menuitem) :
    /\ d.items[i].menuitem_id = ToStr(m._id)
    /\ d.items[i].price # 0
    /\ d.items[i].price # m.price

IsDescending(body) ==
  \A i \in 1..(Len(body) - 1) : body[i].id.n > body[i + 1].id.n

\* C6: list_orders with limit N answers at most N records, the newest first:
\* descending by identity, and no order left out is newer than one returned.
C6_AtMostLimitNewestFirst ==
  resp.op = "list_orders" =>
    /\ Len(resp.body) <= resp.req
    /\ IsDescending(resp.body)
    /\ \A b \in Range(resp.body) : \E d \in Range(order) : SerializeDoc(d) = b
    /\ \A d \in Range(order) :
         (SerializeDoc(d) \notin Range(resp.body)) =>
           \A b \in Range(resp.body) : b.id.n > d._id

\* C7: every persisted order has a total of at least 0.
C7_TotalNonNegative ==
  \A d \in Range(order) : d.total >= 0

MatchingMenu(r) == {SerializeDoc(d) : d \in {m \in Range(menuitem) : m.restaurant_id = r}}

Min(a, b) == IF a < b THEN a ELSE b

C8_State ==
  resp.op = "get_menu" =>
    /\ resp.code = 200
    /\ Range(resp.body) \subseteq MatchingMenu(resp.req)
    /\ Len(resp.body) = Min(Cardinality(MatchingMenu(resp.req)), MenuLimit)
    /\ Cardinality(Range(resp.body)) = Len(resp.body)
    /\ (~ \E d \in Range(restaurant) : ToStr(d._id) = resp.req) => resp.body = <<>>

C8_Step == resp'.op = "get_menu" => UNCHANGED store

\* C8: get_menu for the text r answers 200 with exactly the menu items whose
\* restaurant_id is the text r (at most 200 of them), with the empty sequence when
\* r is the text of no restaurant's identity, and leaves the store as it is.
C8_MenuByStringEquality == []C8_State /\ [][C8_Step]_vars

\* get_menu has answered with the menu items of a seeded restaurant.
C8_Witness ==
  resp.op = "get_menu" /\ resp.body # <<>> /\ Len(menuitem) > Len(resp.body)

C9_State ==
  /\ \A d \in Range(order) : \A i \in 1..Len(d.items) : IsValidOid(d.items[i].menuitem_id)
  /\ \A w \in Workers : pc[w] \in {"order_insert", "order_return"} =>
       AllValid(MenuIds(loc[w].payload.items))
  /\ (resp.op = "place_order" /\ ~AllValid(MenuIds(resp.req.items))) => resp.code = 500

C9_Step ==
  (resp'.op = "place_order" /\ resp'.code = 500) => UNCHANGED store

\* C9: a place_order request with a malformed menu item identity is answered
\* 500, never proceeds to the insert, and leaves every collection as it is; no
\* persisted order holds a malformed identity.
C9_MalformedIdIs500 == []C9_State /\ [][C9_Step]_vars

\* A request with a malformed line and a line naming a stored menu item got 500.
C9_Witness ==
  /\ resp.op = "place_order"
  /\ resp.code = 500
  /\ \E i \in 1..Len(resp.req.items) : \E m \in Range(menuitem) :
       resp.req.items[i].menuitem_id = ToStr(m._id)

\* C10: under any interleaving of seed invocations the store never holds more
\* than 2 restaurants or 4 menu items, and holds exactly 2 and 4 once an
\* invocation has answered.
C10_ConcurrentSeedsSeedOnce ==
  /\ Len(restaurant) <= 2
  /\ Len(menuitem) <= 4
  /\ (resp.op = "seed" /\ AllIdle) => (Len(restaurant) = 2 /\ Len(menuitem) = 4)
====
